---- MODULE Spec2Model ----
(***************************************************************************)
(* The bounded multi-round tool-orchestration loop of                      *)
(* backend/ai_generator.py (AIGenerator.generate_response and the helpers  *)
(* it calls), modelled as a state machine.  One behaviour is one call of   *)
(* generate_response; the language model and the tools are the             *)
(* environment and answer nondeterministically.                            *)
(***************************************************************************)
EXTENDS Integers, Sequences, FiniteSets, TLC

\* ---------------------------------------------------------------- bounds
\* Largest max_rounds argument explored.
MaxRounds == 2
\* Largest number of tool calls the model requests during one query.
MaxToolCalls == 3

\* ------------------------------------------------------------- constants
\* Python's None, for a message content or an absent argument.
None == "None"

\* Python truthiness of an Optional[str].
Truthy(x) == x # None /\ x # ""

SYSTEM_PROMPT == "SYSTEM_PROMPT"

FINAL_PROMPT == "Based on all the information gathered, please provide your final comprehensive answer."

DECISION_PROMPT == "Based on the information you've gathered, do you have sufficient information to provide a complete answer, or do you need to use additional tools? If you need more information, use the appropriate tools. If you have sufficient information, provide your final comprehensive response."

\* ------------------------------------------------------------ input sets
\* max_rounds arguments: non-positive ones included.
RoundArgs == (0 - 1)..MaxRounds

\* The tools argument: absent, or the two registered tool definitions.
ToolArgs == { <<>>, <<"search_course_content", "get_course_outline">> }

\* The conversation_history argument.
HistoryArgs == { None, "prior exchange" }

QUERY == "query"

\* Texts a model response can carry as its content.
Texts == { "answer", "", None }

\* Tool names a model can ask for: a registered one and an unregistered one.
ToolNames == { "search_course_content", "nonexistent_tool" }

\* Argument payloads a model can produce: well-formed JSON text and text
\* json.loads rejects.
Arguments == { "{json}", "{malformed" }

\* Strings a registered tool returns, and the messages of the exceptions it
\* raises.
ToolOutputs == { "Tool result" }
ToolErrors == { "boom" }

\* The handler has not answered the request yet.
NoHttpResponse == [ status |-> 0, session_id |-> None, detail |-> None ]

\* A lesson_number that is absent (Python None).
NoLesson == 0 - 1

\* The value _build_filter returns for "no filter" (Python None).
NoFilter == << >>

\* SearchResults.empty(error_msg); with error None, a result set that is
\* just empty.
EmptyResults(error) ==
    [ documents |-> <<>>, metadata |-> <<>>, error |-> error ]

VARIABLES
    max_rounds,     \* argument of generate_response
    tools,          \* argument of generate_response
    tool_manager,   \* argument of generate_response: TRUE iff one is given
    messages,       \* the accumulated message list
    round_num,      \* the loop variable of generate_response
    pc,             \* position in generate_response
    response,       \* response of the round's _make_api_call
    tool_idx,       \* position of the for loop over tool_calls
    api_calls,      \* client.chat.completions.create calls made, in order
    executed,       \* tool_manager.execute_tool calls made, in order
    batches,        \* rounds (1-based) whose tool loop has run, in order
    result,         \* value returned by generate_response
    requested,      \* number of tool calls the model has requested so far
    tool_outcomes,  \* what each iteration of the tool loop did, in order
    q_pc,           \* position of the running request in RAGSystem.query
    last_sources,   \* the search tool's last_sources, shared by all requests
    q_sources,      \* the local sources of RAGSystem.query
    q_answer,       \* the local response of RAGSystem.query
    q_alone,        \* last_sources as the running query alone would have it
    q_events,       \* what the running query has done, in order
    formatted,      \* the last result set formatted and the list tracked for it
    last_finished,  \* how the last finished request ended
    num_queries,    \* number of requests started so far
    s_pc,           \* position in CourseSearchTool.execute
    course_name,    \* argument of execute and of VectorStore.search
    lesson_number,  \* argument of execute and of VectorStore.search
    course_title,   \* the title the course name resolved to
    filter_dict,    \* the filter the content index was queried with
    results,        \* the SearchResults that search returned
    tool_text,      \* the text that execute returned
    content_queries, \* number of queries made to the content index
    index_raised,   \* the cause of the exception the content index raised
    request_session,\* session_id of the request being handled
    session_id,     \* the local session_id of query_documents
    q_history,      \* the local history of RAGSystem.query
    session_calls,  \* calls made to the session manager for the request
    with_history,   \* the sessions that have an exchange recorded
    num_sessions,   \* number of sessions created so far
    q_exception,    \* message of the exception raised in the handler
    http_response   \* the answer of query_documents to the last request

\* The state of one generate_response call.
gvars == << max_rounds, tools, tool_manager, messages, round_num, pc, response,
            tool_idx, api_calls, executed, batches, result, requested,
            tool_outcomes >>

\* The state of the application around it, but for the position.
qvars_but_pc == << last_sources, q_sources, q_answer, q_alone, q_events,
                   formatted, last_finished, num_queries >>

\* The state of the application around it.
qvars == << q_pc, last_sources, q_sources, q_answer, q_alone, q_events,
            formatted, last_finished, num_queries >>

\* The state of one execution of the search tool.
svars == << s_pc, course_name, lesson_number, course_title, filter_dict,
            results, tool_text, content_queries, index_raised >>

\* The state of the endpoint and of the session manager.
avars == << request_session, session_id, q_history, session_calls,
            with_history, num_sessions, q_exception, http_response >>

vars == << gvars, qvars, svars, avars >>

\* ------------------------------------------------------------- messages
Msg(role, content, tool_calls, tool_call_id) ==
    [ role |-> role, content |-> content, tool_calls |-> tool_calls,
      tool_call_id |-> tool_call_id ]

SystemMsg(content) == Msg("system", content, <<>>, 0)
UserMsg(content) == Msg("user", content, <<>>, 0)
ToolMsg(id, content) == Msg("tool", content, <<>>, id)

\* response.choices[0].message, as appended to the message list.
AssistantMsg(resp) == Msg("assistant", resp.content, resp.tool_calls, 0)

NoResponse == [ finish_reason |-> "none", content |-> None, tool_calls |-> <<>> ]

\* A system_content that leaves the conversation history out.
SystemContentNoHistory(conversation_history) == SYSTEM_PROMPT

\* system_content of generate_response.
SystemContent(conversation_history) ==
    IF Truthy(conversation_history)
    THEN SYSTEM_PROMPT \o "\n\nPrevious conversation:\n" \o conversation_history
    ELSE SYSTEM_PROMPT

InitialMessages(query, conversation_history) ==
    << SystemMsg(SystemContent(conversation_history)), UserMsg(query) >>

\* ------------------------------------------------------ the environment
\* Tool-call lists the model may produce when it has already requested n
\* tool calls: ids are fresh, in request order.
ToolCallLists(n) ==
    UNION { { [ i \in 1..k |-> [ id |-> n + i, name |-> f[i][1],
                                  arguments |-> f[i][2] ] ] :
              f \in [ 1..k -> ToolNames \X Arguments ] } :
            k \in 1..(MaxToolCalls - n) }

\* Responses chat.completions.create can return.
ModelResponses(n) ==
    { [ finish_reason |-> "stop", content |-> c, tool_calls |-> <<>> ] :
        c \in Texts }
    \cup
    { [ finish_reason |-> "tool_calls", content |-> None, tool_calls |-> tcs ] :
        tcs \in ToolCallLists(n) }

\* Tool requests that come with a text of the model: those for one tool
\* call.
TextToolRequests(n) ==
    { [ finish_reason |-> "tool_calls", content |-> "Let me check",
        tool_calls |-> tcs ] :
        tcs \in { l \in ToolCallLists(n) : Len(l) = 1 } }

\* Responses a round-start call can get.  A tool request that comes with a
\* text is explored for the calls made without a tool manager, where the
\* text is what generate_response returns; with a tool manager the text
\* only travels inside the assistant message.
RoundResponses(n, tm) ==
    ModelResponses(n) \cup (IF tm THEN {} ELSE TextToolRequests(n))

\* The outcome recorded for a chat.completions.create call that raised.
RaisedResponse == [ finish_reason |-> "raised", content |-> None, tool_calls |-> <<>> ]

\* One recorded chat.completions.create call: the code site that made it, the
\* messages sent, the tool schemas advertised (<<>>: no "tools" key) and the
\* response it got.
ApiCall(site, msgs, advertised, resp) ==
    [ site |-> site, messages |-> msgs, tools |-> advertised, response |-> resp ]

\* _convert_tools_to_openai_format: one function schema per tool, in order.
ConvertToolsToOpenAIFormat(anthropic_tools) ==
    [ i \in 1..Len(anthropic_tools) |->
        [ type |-> "function", name |-> anthropic_tools[i] ] ]

\* A request that carries the system and user messages only.
MakeApiCallMessagesFresh(msgs) == SubSeq(msgs, 1, 2)

\* The "messages" parameter of _make_api_call's request.
MakeApiCallMessages(msgs) == msgs

\* The "tools" parameter of _make_api_call's request.
MakeApiCallTools(tls) ==
    IF tls # <<>> THEN ConvertToolsToOpenAIFormat(tls) ELSE <<>>

\* The request parameters built by _should_continue_to_next_round.
DecisionTools(tls) == <<>>

\* The request parameters built by _get_final_response.
FinalTools(tls) == <<>>

TypeOK ==
    /\ max_rounds \in RoundArgs
    /\ tools \in ToolArgs
    /\ tool_manager \in BOOLEAN
    /\ round_num \in 0..MaxRounds
    /\ pc \in { "loop", "check_tools", "exec_tools", "decide", "final",
                "done", "raised" }
    /\ tool_idx \in 0..(MaxToolCalls + 1)
    /\ requested \in 0..MaxToolCalls

Init ==
    /\ max_rounds \in RoundArgs
    /\ tools \in ToolArgs
    /\ tool_manager \in BOOLEAN
    /\ \E h \in HistoryArgs : messages = InitialMessages(QUERY, h)
    /\ round_num = 0
    /\ pc = "loop"
    /\ response = NoResponse
    /\ tool_idx = 0
    /\ api_calls = <<>>
    /\ executed = <<>>
    /\ batches = <<>>
    /\ result = None
    /\ requested = 0
    /\ tool_outcomes = <<>>
    /\ q_pc = "idle"
    /\ last_sources = <<>>
    /\ q_sources = <<>>
    /\ q_answer = None
    /\ q_alone = <<>>
    /\ q_events = <<>>
    /\ formatted = [ labels |-> <<>>, sources |-> <<>> ]
    /\ last_finished = [ outcome |-> "none", answer |-> None, sources |-> <<>> ]
    /\ num_queries = 0
    /\ s_pc = "idle"
    /\ course_name = None
    /\ lesson_number = NoLesson
    /\ course_title = None
    /\ filter_dict = NoFilter
    /\ results = EmptyResults(None)
    /\ tool_text = <<>>
    /\ content_queries = 0
    /\ index_raised = None
    /\ request_session = None
    /\ session_id = None
    /\ q_history = None
    /\ session_calls = <<>>
    /\ with_history = {}
    /\ num_sessions = 0
    /\ q_exception = None
    /\ http_response = NoHttpResponse

\* ------------------------------------------------------ pure decisions
\* A loop that runs one round more than range(max_rounds) holds.
RoundInRangeInclusive(r, mr) == r <= mr

\* The for loop of generate_response: range(max_rounds) still has round_num.
RoundInRange(r, mr) == r < mr

\* A loop that starts the next round without counting it.
NextRoundNumStuck(r) == r

\* The loop variable's next value in range(max_rounds).
NextRoundNum(r) == r + 1

\* A tool loop that stays on the same tool call.
NextToolIdxStuck(i) == i

\* The position of the next iteration of the loop over tool_calls.
NextToolIdx(i) == i + 1

\* A branch that looks at the finish reason only.
WantsToolsIgnoringManager(resp, tm) == resp.finish_reason = "tool_calls"

\* A branch that looks at the tool manager only.
WantsToolsIgnoringReason(resp, tm) == tm

\* Line 111: the response asks for tools and a tool manager was given.
WantsTools(resp, tm) == resp.finish_reason = "tool_calls" /\ tm

\* A round that asks the model whether to go on even when it is the last.
IsLastRoundNever(current_round, mr) == FALSE

\* The last round's check, off by one.
IsLastRoundOffByOne(current_round, mr) == current_round > mr

\* Line 204: the round whose tools were just executed is the last one.
IsLastRound(current_round, mr) == current_round >= mr

\* A limit check that always fires.
HitRoundLimitAlways(r, mr) == TRUE

\* Line 122: no further round is allowed after a "continue" decision.
HitRoundLimit(r, mr) == r + 1 >= mr

\* A continuation check that takes every answer as a request to go on.
DecisionContinuesAlways(resp) == TRUE

\* Line 236: the continuation decision asks for more tools.
DecisionContinues(resp) == resp.finish_reason = "tool_calls"

\* Line 119: the text of a stopping decision is returned only if truthy.
ReturnsDecisionText(final_response) == Truthy(final_response)

\* A direct return that hands out an empty text.
DirectResponseEmpty(resp) == ""

\* Line 127: the value returned when no tools are called.
DirectResponse(resp) == resp.content

\* A json.loads that accepts any payload.
JsonLoadsAnything(arguments) == TRUE

\* json.loads on an argument payload: TRUE iff it parses.
JsonLoads(arguments) == arguments = "{json}"

\* ToolManager.execute_tool: the strings it can return for a tool name
\* ("ok" outcomes) and the exceptions a registered tool can raise.
\* ran: the registered tool's execute method was called.
ExecuteToolOutcomes(name) ==
    IF name = "search_course_content"
    THEN { [ raised |-> FALSE, text |-> t, ran |-> TRUE ] : t \in ToolOutputs }
         \cup { [ raised |-> TRUE, text |-> e, ran |-> TRUE ] : e \in ToolErrors }
    ELSE { [ raised |-> FALSE, text |-> "Tool '" \o name \o "' not found",
             ran |-> FALSE ] }

\* The outcome of a try block whose json.loads raised: execute_tool is not
\* reached.
JsonFailure == [ raised |-> TRUE, text |-> "JSONDecodeError", ran |-> FALSE ]

\* One entry of tool_outcomes: the tool call handled, whether execute_tool
\* was called for it, and the outcome of the try block.
ToolOutcome(tool_call, invoked, outcome) ==
    [ id |-> tool_call.id, name |-> tool_call.name, invoked |-> invoked,
      ran |-> outcome.ran, raised |-> outcome.raised, text |-> outcome.text ]

\* An except clause that ends the loop over tool_calls.
AfterFailureAbort(i, n) == n + 1

\* An except clause that tries the same tool call again.
AfterFailureRetry(i, n) == i

\* Lines 194-201: the except clause is inside the loop over the n tool
\* calls, so after a failure at position i the loop goes on with the next.
AfterFailure(i, n) == i + 1

\* A model call that is made again after it raised.
AfterApiErrorRetry(at) == at

\* Lines 144, 159, 233: no except clause surrounds a model call; an
\* exception raised at position at leaves generate_response.
AfterApiError(at) == "raised"

\* An except clause that passes on the cause without the prefix.
ToolResultContentBare(outcome) == outcome.text

\* A loop body that reports every result as a failure.
ToolResultContentAlwaysFailed(outcome) ==
    "Tool execution failed: " \o outcome.text

\* The content of the tool message appended for one outcome of the try block.
ToolResultContent(outcome) ==
    IF outcome.raised THEN "Tool execution failed: " \o outcome.text
    ELSE outcome.text

\* A loop that walks the tool calls from the last to the first.
ToolCallAtReversed(tool_calls, i) == tool_calls[Len(tool_calls) + 1 - i]

\* Which tool-call request the for loop handles at position i.
ToolCallAt(tool_calls, i) == tool_calls[i]

\* -------------------------------------------------------------- actions
\* Lines 106-108: a round starts with _make_api_call(messages, tools).
MakeApiCall ==
    /\ pc = "loop"
    /\ RoundInRange(round_num, max_rounds)
    /\ \E resp \in RoundResponses(requested, tool_manager) :
        /\ response' = resp
        /\ requested' = requested + Len(resp.tool_calls)
        /\ api_calls' = Append(api_calls,
                ApiCall("round", MakeApiCallMessages(messages),
                        MakeApiCallTools(tools), resp))
    /\ pc' = "check_tools"
    /\ UNCHANGED << max_rounds, tools, tool_manager, messages, round_num,
                    tool_idx, executed, batches, result,
                    tool_outcomes >>
    /\ UNCHANGED qvars
    /\ UNCHANGED svars
    /\ UNCHANGED avars

\* Lines 125-127: no tools called, the response's content is returned.
ReturnDirectResponse ==
    /\ pc = "check_tools"
    /\ ~WantsTools(response, tool_manager)
    /\ result' = DirectResponse(response)
    /\ pc' = "done"
    /\ UNCHANGED << max_rounds, tools, tool_manager, messages, round_num,
                    response, tool_idx, api_calls, executed, batches,
                    requested,
                    tool_outcomes >>
    /\ UNCHANGED qvars
    /\ UNCHANGED svars
    /\ UNCHANGED avars

\* Lines 111-114, 177-181: the tool request is appended and the loop over
\* its tool calls begins.
BeginToolExecutionRound ==
    /\ pc = "check_tools"
    /\ WantsTools(response, tool_manager)
    /\ messages' = Append(messages, AssistantMsg(response))
    /\ tool_idx' = 1
    /\ pc' = "exec_tools"
    /\ UNCHANGED << max_rounds, tools, tool_manager, round_num, response,
                    api_calls, executed, batches, result, requested,
                    tool_outcomes >>
    /\ UNCHANGED qvars
    /\ UNCHANGED svars
    /\ UNCHANGED avars

\* Lines 182-201: one iteration of the loop over tool_calls.
ExecuteToolCall ==
    /\ pc = "exec_tools"
    /\ tool_idx <= Len(response.tool_calls)
    /\ LET tool_call == ToolCallAt(response.tool_calls, tool_idx) IN
        IF JsonLoads(tool_call.arguments)
        THEN /\ executed' = Append(executed, tool_call)
             /\ \E outcome \in ExecuteToolOutcomes(tool_call.name) :
                /\ messages' = Append(messages,
                        ToolMsg(tool_call.id, ToolResultContent(outcome)))
                /\ tool_outcomes' = Append(tool_outcomes,
                        ToolOutcome(tool_call, TRUE, outcome))
                /\ tool_idx' =
                        IF outcome.raised
                        THEN AfterFailure(tool_idx, Len(response.tool_calls))
                        ELSE NextToolIdx(tool_idx)
        ELSE /\ executed' = executed
             /\ messages' = Append(messages,
                    ToolMsg(tool_call.id, ToolResultContent(JsonFailure)))
             /\ tool_outcomes' = Append(tool_outcomes,
                    ToolOutcome(tool_call, FALSE, JsonFailure))
             /\ tool_idx' = AfterFailure(tool_idx, Len(response.tool_calls))
    /\ batches' = IF tool_idx = 1 THEN Append(batches, round_num + 1)
                  ELSE batches
    /\ UNCHANGED << max_rounds, tools, tool_manager, round_num, pc, response,
                    api_calls, result, requested >>
    /\ UNCHANGED qvars
    /\ UNCHANGED svars
    /\ UNCHANGED avars

\* Lines 203-208, 117-119: after the loop, the last round stops with no
\* response (so the final response is fetched); an earlier round goes on to
\* ask the model whether to continue.
EndToolExecutionRound ==
    /\ pc = "exec_tools"
    /\ tool_idx > Len(response.tool_calls)
    /\ pc' = IF IsLastRound(round_num + 1, max_rounds) THEN "final"
             ELSE "decide"
    /\ UNCHANGED << max_rounds, tools, tool_manager, messages, round_num,
                    response, tool_idx, api_calls, executed, batches, result,
                    requested,
                    tool_outcomes >>
    /\ UNCHANGED qvars
    /\ UNCHANGED svars
    /\ UNCHANGED avars

\* Lines 210-242, 117-124: _should_continue_to_next_round and what
\* generate_response does with its answer.
ShouldContinueToNextRound ==
    /\ pc = "decide"
    /\ \E decision_response \in ModelResponses(requested) :
        /\ api_calls' = Append(api_calls,
                ApiCall("decision", Append(messages, UserMsg(DECISION_PROMPT)),
                        DecisionTools(tools), decision_response))
        /\ requested' = requested + Len(decision_response.tool_calls)
        /\ IF DecisionContinues(decision_response)
           THEN /\ messages' = Append(messages, AssistantMsg(decision_response))
                /\ result' = result
                /\ IF HitRoundLimit(round_num, max_rounds)
                   THEN pc' = "final" /\ round_num' = round_num
                   ELSE pc' = "loop" /\ round_num' = NextRoundNum(round_num)
           ELSE /\ messages' = messages
                /\ round_num' = round_num
                /\ IF ReturnsDecisionText(decision_response.content)
                   THEN pc' = "done" /\ result' = decision_response.content
                   ELSE pc' = "final" /\ result' = result
    /\ UNCHANGED << max_rounds, tools, tool_manager, response, tool_idx,
                    executed, batches,
                    tool_outcomes >>
    /\ UNCHANGED qvars
    /\ UNCHANGED svars
    /\ UNCHANGED avars

\* Line 130: the loop ran out of rounds without returning.
Fallback ==
    /\ pc = "loop"
    /\ ~RoundInRange(round_num, max_rounds)
    /\ pc' = "final"
    /\ UNCHANGED << max_rounds, tools, tool_manager, messages, round_num,
                    response, tool_idx, api_calls, executed, batches, result,
                    requested,
                    tool_outcomes >>
    /\ UNCHANGED qvars
    /\ UNCHANGED svars
    /\ UNCHANGED avars

\* Lines 146-160: _get_final_response, whose text generate_response returns.
GetFinalResponse ==
    /\ pc = "final"
    /\ \E final_response \in ModelResponses(requested) :
        /\ api_calls' = Append(api_calls,
                ApiCall("final", Append(messages, UserMsg(FINAL_PROMPT)),
                        FinalTools(tools), final_response))
        /\ requested' = requested + Len(final_response.tool_calls)
        /\ result' = final_response.content
    /\ pc' = "done"
    /\ UNCHANGED << max_rounds, tools, tool_manager, messages, round_num,
                    response, tool_idx, executed, batches,
                    tool_outcomes >>
    /\ UNCHANGED qvars
    /\ UNCHANGED svars
    /\ UNCHANGED avars

\* Lines 144, 159, 233: chat.completions.create raises; nothing in
\* generate_response catches it.
ApiCallRaises ==
    /\ \/ pc = "loop" /\ RoundInRange(round_num, max_rounds)
          /\ api_calls' = Append(api_calls,
                ApiCall("round", MakeApiCallMessages(messages),
                        MakeApiCallTools(tools), RaisedResponse))
       \/ pc = "decide"
          /\ api_calls' = Append(api_calls,
                ApiCall("decision", Append(messages, UserMsg(DECISION_PROMPT)),
                        DecisionTools(tools), RaisedResponse))
       \/ pc = "final"
          /\ api_calls' = Append(api_calls,
                ApiCall("final", Append(messages, UserMsg(FINAL_PROMPT)),
                        FinalTools(tools), RaisedResponse))
    /\ pc' = AfterApiError(pc)
    /\ UNCHANGED << max_rounds, tools, tool_manager, messages, round_num,
                    response, tool_idx, executed, batches, result, requested,
                    tool_outcomes >>
    /\ UNCHANGED qvars
    /\ UNCHANGED svars
    /\ UNCHANGED avars

Next ==
    \/ MakeApiCall
    \/ ReturnDirectResponse
    \/ BeginToolExecutionRound
    \/ ExecuteToolCall
    \/ EndToolExecutionRound
    \/ ShouldContinueToNextRound
    \/ Fallback
    \/ GetFinalResponse
    \/ ApiCallRaises

Spec == Init /\ [][Next]_vars

\* The calls whose progress is checked: the application's, which passes its
\* tool definitions and no conversation history on a first query.
FairInit ==
    /\ Init
    /\ tools # <<>>
    /\ messages = InitialMessages(QUERY, None)

\* Every call made by generate_response returns or raises: no step that is
\* enabled is postponed forever.
FairSpec == FairInit /\ [][Next]_vars /\ WF_vars(Next)

\* ------------------------------------------------ the application
\* One RAGSystem serves every request (app.py line 39), and its one tool
\* manager holds the search tool whose last_sources the requests share.

\* The most requests of a run.
MaxQueries == 3

\* The most results of one search.
MaxResults == 3

\* The source labels of the indexed chunks.
Labels == { "Course A - Lesson 1", "Course B - Lesson 2" }

\* The label sequences of the result sets a search can return, in result
\* order; the empty one is a search that retrieved no chunk.
ResultLabels == UNION { [ 1..n -> Labels ] : n \in 0..MaxResults }

\* label in sources.
Contains(sources, label) ==
    \E i \in 1..Len(sources) : sources[i] = label

\* A tracker that appends every label of the result set.
UniqueSourcesKeepAll(sources, labels) == sources \o labels

\* The loop that appends to sources each label of labels that is not yet
\* in it.
RECURSIVE UniqueSourcesFrom(_, _)
UniqueSourcesFrom(sources, labels) ==
    IF labels = <<>> THEN sources
    ELSE UniqueSourcesFrom(
            IF Contains(sources, Head(labels)) THEN sources
            ELSE Append(sources, Head(labels)),
            Tail(labels))

\* The source list _format_results derives from the labels of a result set.
UniqueSources(labels) == UniqueSourcesFrom(<<>>, labels)

\* last_sources after the labels of a formatted result set were added to it.
TrackSources(tracker, labels) == UniqueSourcesFrom(tracker, labels)

\* A get_last_sources that hands out an empty list.
GetLastSourcesNothing(tracker) == <<>>

\* ToolManager.get_last_sources: the list the search tool holds.
GetLastSources(tracker) == tracker

\* ToolManager.reset_sources: the search tool's list is emptied.
ResetSources(tracker) == <<>>

\* One entry of q_events: what was done and, for a get_last_sources, the
\* list the search tool held then.
Event(op, tracker) == [ op |-> op, tracker |-> tracker ]

\* How a request ended: with the pair RAGSystem.query returned ("ok"), or
\* with the exception of generate_response ("raised"); "none" while it
\* runs.
Finished(outcome, answer, sources) ==
    [ outcome |-> outcome, answer |-> answer, sources |-> sources ]

\* The session ids a request may carry: none, an empty one, or the id of
\* a session.
SessionArgs == { None, "", "session_1" }

\* The id of the n-th session the session manager creates.
NewSessionId(n) == "session_" \o ToString(n)

\* The messages of the exceptions create_session may raise.
SessionErrors == { "Session store failed" }

\* The messages of the exceptions a model call may raise.
ApiErrors == { "Connection error" }

\* A handler that creates a session only when the request has no
\* session_id field.
NeedsSessionOnlyForNone(supplied) == supplied = None

\* Line 86: if not session_id.
NeedsSession(supplied) == ~Truthy(supplied)

\* One entry of session_calls.
SessionCall(op, sid, query, answer) ==
    [ op |-> op, session_id |-> sid, query |-> query, answer |-> answer ]

\* SessionManager.get_conversation_history: the history of a session that
\* has exchanges, None for one that has none.
GetConversationHistory(sessions, sid) ==
    IF sid \in sessions THEN "prior exchange" ELSE None

\* Line 101: the QueryResponse of a request that was processed.
QueryResponse(sid) ==
    [ status |-> 200, session_id |-> sid, detail |-> None ]

\* A handler that reports a failure without its message.
ErrorResponseGeneric(message) ==
    [ status |-> 500, session_id |-> None, detail |-> "Query processing error" ]

\* Lines 102-106: the HTTPException raised for an exception with this
\* message.
ErrorResponse(message) ==
    [ status |-> 500, session_id |-> None,
      detail |-> "Query processing error: " \o message ]

\* print(... answer[:100] ...) at line 97 raises for an answer that is None.
AnswerError(answer) ==
    IF answer = None THEN "'NoneType' object is not subscriptable" ELSE None

\* query_documents, lines 78-96: an async handler with no await in it runs
\* from start to end before the event loop starts another, so a request
\* starts only when none is running. A request without a session id gets
\* a new session; then rag_system.query is called.
QueryStart ==
    /\ q_pc = "idle"
    /\ num_queries < MaxQueries
    /\ num_queries' = num_queries + 1
    /\ \E supplied \in SessionArgs :
        /\ request_session' = supplied
        /\ IF NeedsSession(supplied)
           THEN /\ num_sessions' = num_sessions + 1
                /\ session_id' = NewSessionId(num_sessions + 1)
                /\ session_calls' = << SessionCall("create_session",
                        NewSessionId(num_sessions + 1), None, None) >>
           ELSE /\ num_sessions' = num_sessions
                /\ session_id' = supplied
                /\ session_calls' = <<>>
    /\ q_pc' = "history"
    /\ q_sources' = <<>>
    /\ q_answer' = None
    /\ q_alone' = <<>>
    /\ q_events' = <<>>
    /\ q_history' = None
    /\ q_exception' = None
    /\ formatted' = [ labels |-> <<>>, sources |-> <<>> ]
    /\ last_finished' = Finished("none", None, <<>>)
    /\ http_response' = NoHttpResponse
    /\ UNCHANGED << last_sources, with_history >>
    /\ UNCHANGED gvars
    /\ UNCHANGED svars

\* query_documents, lines 86-90 and 102-106: create_session raises; the
\* handler answers with status 500.
CreateSessionRaises ==
    /\ q_pc = "idle"
    /\ num_queries < MaxQueries
    /\ num_queries' = num_queries + 1
    /\ \E supplied \in SessionArgs, message \in SessionErrors :
        /\ NeedsSession(supplied)
        /\ request_session' = supplied
        /\ q_exception' = message
        /\ http_response' = ErrorResponse(message)
    /\ session_id' = None
    /\ session_calls' = <<>>
    /\ q_history' = None
    /\ q_sources' = <<>>
    /\ q_answer' = None
    /\ q_alone' = <<>>
    /\ q_events' = <<>>
    /\ last_finished' = Finished("raised", None, <<>>)
    /\ formatted' = [ labels |-> <<>>, sources |-> <<>> ]
    /\ UNCHANGED << q_pc, last_sources >>
    /\ UNCHANGED << with_history, num_sessions >>
    /\ UNCHANGED gvars
    /\ UNCHANGED svars

\* RAGSystem.query fetches the history of the session and calls
\* generate_response with it, which builds its first two messages (lines
\* 92-103 of ai_generator.py).
QueryGetHistory ==
    /\ q_pc = "history"
    /\ q_history' = GetConversationHistory(with_history, session_id)
    /\ session_calls' = Append(session_calls,
            SessionCall("get_conversation_history", session_id, None, None))
    /\ messages' = InitialMessages(QUERY,
            GetConversationHistory(with_history, session_id))
    /\ q_pc' = "generating"
    /\ UNCHANGED qvars_but_pc
    /\ UNCHANGED << request_session, session_id, with_history, num_sessions,
                    q_exception, http_response >>
    /\ UNCHANGED << max_rounds, tools, tool_manager, round_num, pc, response,
                    tool_idx, api_calls, executed, batches, result, requested,
                    tool_outcomes >>
    /\ UNCHANGED svars

\* generate_response executes the search tool: the tool formats the result
\* set it retrieved and adds its labels to last_sources.
ExecuteSearchTool ==
    /\ q_pc = "generating"
    /\ Len(q_events) < MaxToolCalls
    /\ \E labels \in ResultLabels :
        /\ last_sources' = TrackSources(last_sources, labels)
        /\ q_alone' = TrackSources(q_alone, labels)
        /\ formatted' = [ labels |-> labels, sources |-> UniqueSources(labels) ]
    /\ q_events' = Append(q_events, Event("tool", None))
    /\ UNCHANGED << q_pc, q_sources, q_answer, last_finished, num_queries >>
    /\ UNCHANGED gvars
    /\ UNCHANGED svars
    /\ UNCHANGED avars

\* generate_response returns its answer to RAGSystem.query.
GenerateResponseReturns ==
    /\ q_pc = "generating"
    /\ \E text \in Texts : q_answer' = text
    /\ q_pc' = "generated"
    /\ q_events' = Append(q_events, Event("generated", None))
    /\ UNCHANGED << last_sources, q_sources, q_alone, formatted, last_finished,
                    num_queries >>
    /\ UNCHANGED gvars
    /\ UNCHANGED svars
    /\ UNCHANGED avars

\* A model call of generate_response raises: the exception passes through
\* RAGSystem.query, which does nothing more, to query_documents, which
\* answers with status 500 (lines 102-106).
GenerateResponseRaises ==
    /\ q_pc = "generating"
    /\ q_pc' = "idle"
    /\ last_finished' = Finished("raised", None, <<>>)
    /\ \E message \in ApiErrors :
        /\ q_exception' = message
        /\ http_response' = ErrorResponse(message)
    /\ UNCHANGED << last_sources, q_sources, q_answer, q_alone, q_events,
                    formatted, num_queries >>
    /\ UNCHANGED << request_session, session_id, q_history, session_calls,
                    with_history, num_sessions >>
    /\ UNCHANGED gvars
    /\ UNCHANGED svars

\* RAGSystem.query: sources = self.tool_manager.get_last_sources().
QueryGetLastSources ==
    /\ q_pc = "generated"
    /\ q_sources' = GetLastSources(last_sources)
    /\ q_pc' = "read"
    /\ q_events' = Append(q_events, Event("read", last_sources))
    /\ UNCHANGED << last_sources, q_answer, q_alone, formatted, last_finished,
                    num_queries >>
    /\ UNCHANGED gvars
    /\ UNCHANGED svars
    /\ UNCHANGED avars

\* RAGSystem.query: self.tool_manager.reset_sources().
QueryResetSources ==
    /\ q_pc = "read"
    /\ last_sources' = ResetSources(last_sources)
    /\ q_pc' = "reset"
    /\ q_events' = Append(q_events, Event("reset", None))
    /\ UNCHANGED << q_sources, q_answer, q_alone, formatted, last_finished,
                    num_queries >>
    /\ UNCHANGED gvars
    /\ UNCHANGED svars
    /\ UNCHANGED avars

\* RAGSystem.query: session_manager.add_exchange(session_id, query,
\* response).
QueryAddExchange ==
    /\ q_pc = "reset"
    /\ with_history' = with_history \cup { session_id }
    /\ session_calls' = Append(session_calls,
            SessionCall("add_exchange", session_id, QUERY, q_answer))
    /\ q_pc' = "recorded"
    /\ UNCHANGED qvars_but_pc
    /\ UNCHANGED << request_session, session_id, q_history, num_sessions,
                    q_exception, http_response >>
    /\ UNCHANGED gvars
    /\ UNCHANGED svars

\* RAGSystem.query returns (response, sources), and query_documents answers
\* with them and the session id (lines 96-101), or with status 500 when
\* building the answer raises.
QueryReturns ==
    /\ q_pc = "recorded"
    /\ q_pc' = "idle"
    /\ last_finished' = Finished("ok", q_answer, q_sources)
    /\ q_exception' = AnswerError(q_answer)
    /\ http_response' = IF AnswerError(q_answer) = None
                        THEN QueryResponse(session_id)
                        ELSE ErrorResponse(AnswerError(q_answer))
    /\ UNCHANGED << last_sources, q_sources, q_answer, q_alone, q_events,
                    formatted, num_queries >>
    /\ UNCHANGED << request_session, session_id, q_history, session_calls,
                    with_history, num_sessions >>
    /\ UNCHANGED gvars
    /\ UNCHANGED svars

QueryNext ==
    \/ QueryStart
    \/ CreateSessionRaises
    \/ QueryGetHistory
    \/ ExecuteSearchTool
    \/ GenerateResponseReturns
    \/ GenerateResponseRaises
    \/ QueryGetLastSources
    \/ QueryResetSources
    \/ QueryAddExchange
    \/ QueryReturns

\* The application as it starts: no request yet, nothing tracked.
QueryInit ==
    /\ Init
    /\ max_rounds = MaxRounds
    /\ tools # <<>>
    /\ tool_manager
    /\ messages = InitialMessages(QUERY, None)

\* The requests of one application process, one after the other.
QuerySpec == QueryInit /\ [][QueryNext]_vars

\* The values of the application's state.
QueryTypeOK ==
    /\ q_pc \in { "idle", "history", "generating", "generated", "read",
                  "reset", "recorded" }
    /\ request_session \in SessionArgs
    /\ num_sessions \in 0..MaxQueries
    /\ http_response.status \in { 0, 200, 500 }
    /\ num_queries \in 0..MaxQueries
    /\ Len(q_events) <= MaxToolCalls + 3
    /\ last_finished.outcome \in { "none", "ok", "raised" }
    /\ formatted.labels \in ResultLabels

\* ------------------------------------------------- the search tool
\* CourseSearchTool.execute: VectorStore.search resolves the course name,
\* builds the filter and queries the content index; the tool formats the
\* result set and tracks its source labels.

\* The titles of the indexed courses.
Titles == { "Course A", "Course B" }

\* The lesson numbers of the indexed chunks.
Lessons == { 1, 2 }

\* The course_name arguments of a search: none, or a fragment of a title.
CourseNames == { None, "Course" }

\* The lesson_number arguments of a search.
LessonArgs == { NoLesson } \cup Lessons

\* The text of an indexed chunk.
Document == "Content"

\* The causes of a failing query of the content index.
IndexErrors == { "ChromaDB connection failed" }

\* The metadata of the indexed chunks; a chunk of a course that is not part
\* of a lesson has no lesson number.
Metadata ==
    [ course_title : Titles, lesson_number : LessonArgs ]

\* A filter that is built from the title alone.
BuildFilterTitleOnly(title, lesson) ==
    IF title = None THEN NoFilter ELSE [ course_title |-> title ]

\* _build_filter: the four cases of the filter table.
BuildFilter(title, lesson) ==
    IF title = None /\ lesson = NoLesson THEN NoFilter
    ELSE IF title # None /\ lesson # NoLesson
         THEN "$and" :> << [ course_title |-> title ],
                           [ lesson_number |-> lesson ] >>
    ELSE IF title # None THEN [ course_title |-> title ]
    ELSE [ lesson_number |-> lesson ]

\* The content index applies the filter: the metadata a query under the
\* filter can return.
Matches(filter, meta) ==
    IF filter = NoFilter THEN TRUE
    ELSE IF DOMAIN filter = { "$and" }
         THEN \A k \in 1..Len(filter["$and"]) :
                \A f \in DOMAIN filter["$and"][k] :
                    meta[f] = filter["$and"][k][f]
    ELSE \A f \in DOMAIN filter : meta[f] = filter[f]

\* The result sets a query of the content index under the filter can
\* return: up to MaxResults chunks that match it, in ranked order.
QueryResults(filter) ==
    LET matching == { meta \in Metadata : Matches(filter, meta) }
    IN  { [ documents |-> [ i \in 1..Len(metas) |-> Document ],
            metadata |-> metas, error |-> None ] :
          metas \in UNION { [ 1..n -> matching ] : n \in 0..MaxResults } }

\* The message of a course name that did not resolve.
NoCourseFound(name) == "No course found matching '" \o name \o "'"

\* A search that passes on the bare cause of a failing index query.
SearchErrorBare(cause) == cause

\* The message of an index query that raised.
SearchError(cause) == "Search error: " \o cause

\* The label of a chunk that never names the lesson.
SourceLabelTitleOnly(meta) == meta.course_title

\* The label of a chunk: the title, and the lesson when it has one.
SourceLabel(meta) ==
    IF meta.lesson_number # NoLesson
    THEN meta.course_title \o " - Lesson " \o ToString(meta.lesson_number)
    ELSE meta.course_title

\* The labels of a result set, in result order.
SourceLabels(res) ==
    [ i \in 1..Len(res.metadata) |-> SourceLabel(res.metadata[i]) ]

\* A message that names the course only.
FilterInfoCourseOnly(name, lesson) ==
    IF name # None THEN " in course '" \o name \o "'" ELSE ""

\* The suffix of the "no content" message: the filters of the search.
FilterInfo(name, lesson) ==
    (IF name # None THEN " in course '" \o name \o "'" ELSE "")
    \o (IF lesson # NoLesson THEN " in lesson " \o ToString(lesson) ELSE "")

\* A formatter that renders the excerpts even when the error is set.
FormatResultsIgnoringError(res, name, lesson) ==
    IF Len(res.documents) = 0
    THEN << "No relevant content found" \o FilterInfo(name, lesson) >>
    ELSE [ i \in 1..Len(res.documents) |->
             "[" \o SourceLabel(res.metadata[i]) \o "]\n" \o res.documents[i] ]

\* The text execute returns, as the list of its blocks (the blocks of the
\* text are joined by blank lines): the error alone, the "no content"
\* message alone, or one block per result, in result order.
FormatResults(res, name, lesson) ==
    IF res.error # None THEN << res.error >>
    ELSE IF Len(res.documents) = 0
    THEN << "No relevant content found" \o FilterInfo(name, lesson) >>
    ELSE [ i \in 1..Len(res.documents) |->
             "[" \o SourceLabel(res.metadata[i]) \o "]\n" \o res.documents[i] ]

\* A search that queries the content index though the name did not resolve.
AfterUnresolvedQueryAnyway == "query"

\* search returns at once when the course name does not resolve.
AfterUnresolved == "format"

\* execute(query, course_name, lesson_number) is called on the tool.
ExecuteSearch ==
    /\ s_pc = "idle"
    /\ \E name \in CourseNames, lesson \in LessonArgs :
        /\ course_name' = name
        /\ lesson_number' = lesson
    /\ s_pc' = "resolve"
    /\ UNCHANGED << course_title, filter_dict, results, tool_text,
                    content_queries, index_raised >>
    /\ UNCHANGED << gvars, qvars, avars >>

\* search, step 1: a course name that is given is resolved by the catalog
\* to its nearest title, or to none when the catalog returns nothing.
ResolveCourseName ==
    /\ s_pc = "resolve"
    /\ IF course_name = None
       THEN /\ s_pc' = "query"
            /\ UNCHANGED << course_title, results >>
       ELSE \E title \in Titles \cup { None } :
            /\ course_title' = title
            /\ IF title = None
               THEN /\ results' = EmptyResults(NoCourseFound(course_name))
                    /\ s_pc' = AfterUnresolved
               ELSE /\ results' = results
                    /\ s_pc' = "query"
    /\ UNCHANGED << course_name, lesson_number, filter_dict, tool_text,
                    content_queries, index_raised >>
    /\ UNCHANGED << gvars, qvars, avars >>

\* search, steps 2 to 4: the filter is built and the content index is
\* queried under it; a query that raises becomes an empty result set with
\* the error.
QueryContent ==
    /\ s_pc = "query"
    /\ filter_dict' = BuildFilter(course_title, lesson_number)
    /\ content_queries' = content_queries + 1
    /\ \/ \E res \in QueryResults(BuildFilter(course_title, lesson_number)) :
            /\ results' = res
            /\ index_raised' = None
       \/ \E cause \in IndexErrors :
            /\ results' = EmptyResults(SearchError(cause))
            /\ index_raised' = cause
    /\ s_pc' = "format"
    /\ UNCHANGED << course_name, lesson_number, course_title, tool_text >>
    /\ UNCHANGED << gvars, qvars, avars >>

\* execute formats the result set, tracks the labels of a result set that
\* has results, and returns the text.
FormatSearchResults ==
    /\ s_pc = "format"
    /\ tool_text' = FormatResults(results, course_name, lesson_number)
    /\ IF results.error = None /\ Len(results.documents) > 0
       THEN /\ last_sources' = TrackSources(last_sources, SourceLabels(results))
            /\ formatted' = [ labels |-> SourceLabels(results),
                              sources |-> UniqueSources(SourceLabels(results)) ]
       ELSE UNCHANGED << last_sources, formatted >>
    /\ s_pc' = "done"
    /\ UNCHANGED << course_name, lesson_number, course_title, filter_dict,
                    results, content_queries, index_raised >>
    /\ UNCHANGED << q_pc, q_sources, q_answer, q_alone, q_events,
                    last_finished, num_queries >>
    /\ UNCHANGED << gvars, avars >>

\* CourseSearchTool(vector_store): a new tool, with nothing tracked, for
\* the next search.
NewSearchTool ==
    /\ s_pc = "done"
    /\ s_pc' = "idle"
    /\ course_name' = None
    /\ lesson_number' = NoLesson
    /\ course_title' = None
    /\ filter_dict' = NoFilter
    /\ results' = EmptyResults(None)
    /\ tool_text' = <<>>
    /\ content_queries' = 0
    /\ index_raised' = None
    /\ last_sources' = <<>>
    /\ formatted' = [ labels |-> <<>>, sources |-> <<>> ]
    /\ UNCHANGED << q_pc, q_sources, q_answer, q_alone, q_events,
                    last_finished, num_queries >>
    /\ UNCHANGED << gvars, avars >>

SearchNext ==
    \/ ExecuteSearch
    \/ ResolveCourseName
    \/ QueryContent
    \/ FormatSearchResults
    \/ NewSearchTool

\* Searches on a tool of the application, one at a time.
SearchSpec == QueryInit /\ [][SearchNext]_vars

\* The values of the search tool's state.
SearchTypeOK ==
    /\ s_pc \in { "idle", "resolve", "query", "format", "done" }
    /\ course_name \in CourseNames
    /\ lesson_number \in LessonArgs
    /\ course_title \in Titles \cup { None }
    /\ content_queries \in 0..1
    /\ Len(results.documents) = Len(results.metadata)
    /\ Len(results.documents) <= MaxResults

\* ----------------------------------------------------- derived notions
\* Positions in api_calls of the calls made at one code site.
CallsAt(site) == { i \in 1..Len(api_calls) : api_calls[i].site = site }

\* Positions of the model calls of a site whose response asked for tools.
ToolRequestsAt(site) ==
    { i \in CallsAt(site) : api_calls[i].response.finish_reason = "tool_calls" }

\* Positions of the model calls of a site whose response was a direct answer.
DirectAnswersAt(site) ==
    { i \in CallsAt(site) : api_calls[i].response.finish_reason = "stop" }

\* generate_response has returned a value.
Returned == pc = "done"

\* The tool loop of the current round is over (or no round is running).
ToolLoopOver == pc \in { "loop", "decide", "final", "done", "raised" }

\* The set of values of a sequence.
Range(seq) == { seq[i] : i \in 1..Len(seq) }

\* Every tool-call request of an assistant message of msgs has a tool
\* message with its id later in msgs.
Answered(msgs) ==
    \A i \in 1..Len(msgs) : \A k \in 1..Len(msgs[i].tool_calls) :
        \E j \in (i + 1)..Len(msgs) :
            /\ msgs[j].role = "tool"
            /\ msgs[j].tool_call_id = msgs[i].tool_calls[k].id

\* ------------------------------------------------------------------ C1
\* C1: round bound.  For max_rounds = N >= 1, a call of generate_response
\* runs at most N batches of tool calls, the k-th batch in round k; and when
\* it was given a tool manager (without one no tool is ever executed), once
\* a round's tool loop is over there is exactly one batch per round-start
\* model call that requested tools.
RoundBound ==
    max_rounds >= 1 =>
        /\ Len(batches) <= max_rounds
        /\ \A k \in 1..Len(batches) : batches[k] = k
        /\ (tool_manager /\ ToolLoopOver) =>
              Len(batches) = Cardinality(ToolRequestsAt("round"))

\* A query that has run a batch of tools in every one of its rounds.
RoundBoundWitness ==
    /\ Returned
    /\ max_rounds = MaxRounds
    /\ Len(batches) = max_rounds
    /\ Cardinality(ToolRequestsAt("round")) = max_rounds

\* ------------------------------------------------------------------ C2
\* C2: for max_rounds = N >= 1, a returned call of generate_response has
\* made a final-synthesis model call if and only if it executed the tools of
\* round N (the model wanted tools in every round up to the last).
FinalSynthesisIffLastRoundRan ==
    (max_rounds >= 1 /\ Returned) =>
        (CallsAt("final") # {} <=> max_rounds \in Range(batches))

\* ------------------------------------------------------------------ C3
\* The number of steps generate_response can still take: rounds left first,
\* then the position inside the round.
Variant ==
    (max_rounds - round_num) * (MaxToolCalls + 6)
    + CASE pc = "loop" -> MaxToolCalls + 5
        [] pc = "check_tools" -> MaxToolCalls + 4
        [] pc = "exec_tools" -> (MaxToolCalls + 1 - tool_idx) + 3
        [] pc = "decide" -> 2
        [] pc = "final" -> 1
        [] OTHER -> 0

\* C3: termination.  For max_rounds >= 1 and whatever the model answers,
\* every step of generate_response strictly lowers a natural-number measure
\* (so the number of steps is bounded), and when no model call raises the
\* call eventually returns an answer.
Termination ==
    /\ [][max_rounds >= 1 => (Variant' < Variant /\ Variant' >= 0)]_vars
    /\ ([](pc # "raised")) => <>Returned

\* A query that returned after the model asked for tools on every call it
\* was allowed to.
TerminationWitness ==
    /\ Returned
    /\ max_rounds = MaxRounds
    /\ Cardinality(ToolRequestsAt("round")) = max_rounds
    /\ Cardinality(ToolRequestsAt("decision")) = max_rounds - 1

\* ------------------------------------------------------------------ C4
\* C4: whenever the message history is sent to the model, and when
\* generate_response returns, every tool-call request of an assistant
\* message of that history has a tool message with the matching
\* tool_call_id.
ToolResultForEveryRequest ==
    /\ \A c \in 1..Len(api_calls) : Answered(api_calls[c].messages)
    /\ Returned => Answered(messages)

\* ------------------------------------------------------------------ C5
\* The history a model call of site "decision" was made on: its input
\* without the decision prompt.
HistoryAtDecision(i) ==
    SubSeq(api_calls[i].messages, 1, Len(api_calls[i].messages) - 1)

\* Some tool message of msgs answers the tool call id.
HasToolResult(msgs, id) ==
    \E j \in 1..Len(msgs) : msgs[j].role = "tool" /\ msgs[j].tool_call_id = id

DecisionAdvertisesTools ==
    \A i \in CallsAt("decision") :
        /\ api_calls[i].tools = MakeApiCallTools(tools)
        /\ \A j \in CallsAt("round") : api_calls[i].tools = api_calls[j].tools

\* ------------------------------------------------------------------ C7
\* C7: a continuation check answered directly is the last model call of the
\* query: generate_response is done and its result is that answer's text,
\* whatever the text.
DecisionAnswerReturned ==
    \A i \in DirectAnswersAt("decision") :
        /\ i = Len(api_calls)
        /\ Returned
        /\ result = api_calls[i].response.content

\* ------------------------------------------------------------------ C8
\* C8: a round-start model call answered without a tool request is the only
\* model call of its round and the last of the query; nothing is appended
\* to the history, no tool of that round is executed, and the value returned
\* is the response's content.
DirectAnswerReturnedVerbatim ==
    \A i \in DirectAnswersAt("round") :
        /\ i = Len(api_calls)
        /\ pc \in { "check_tools", "done" }
        /\ Returned => result = api_calls[i].response.content
        /\ Cardinality(CallsAt("round")) = round_num + 1
        /\ Len(batches) = round_num
        /\ messages = api_calls[i].messages

\* A query answered directly by the round-start call of its second round.
DirectAnswerReturnedVerbatimWitness ==
    /\ Returned
    /\ DirectAnswersAt("round") # {}
    /\ round_num = 1
    /\ result = "answer"

\* ------------------------------------------------------------------ C9
\* C9: once the tools of a round n >= max_rounds have been executed, no
\* continuation check is made for that round; one final-synthesis call
\* follows, made on the whole history plus the synthesis prompt and with no
\* tools advertised, and its text is what generate_response returns.
LastRoundForcesFinalSynthesis ==
    (/\ batches # <<>>
     /\ batches[Len(batches)] >= max_rounds
     /\ ToolLoopOver) =>
        /\ pc \in { "final", "done", "raised" }
        /\ Cardinality(CallsAt("decision")) = Len(batches) - 1
        /\ pc = "final" => CallsAt("final") = {}
        /\ pc # "final" =>
            LET last == api_calls[Len(api_calls)] IN
            /\ CallsAt("final") = { Len(api_calls) }
            /\ last.messages = Append(messages, UserMsg(FINAL_PROMPT))
            /\ last.tools = <<>>
            /\ Returned => result = last.response.content

\* A two-round query whose second batch ran and whose synthesis text was
\* returned.
LastRoundForcesFinalSynthesisWitness ==
    /\ Returned
    /\ max_rounds = MaxRounds
    /\ Len(batches) = 2
    /\ tools # <<>>
    /\ result = "answer"

\* ----------------------------------------------------------------- C10
\* How many tool calls of the round-start call at position i of api_calls
\* the tool loop has handled.
Handled(i) ==
    IF ~tool_manager THEN 0
    ELSE IF i = Len(api_calls) /\ pc \in { "check_tools", "raised" } THEN 0
    ELSE IF i = Len(api_calls) /\ pc = "exec_tools" THEN tool_idx - 1
    ELSE Len(api_calls[i].response.tool_calls)

\* The tool calls handled so far, over all rounds.
HandledToolCalls ==
    UNION { { api_calls[i].response.tool_calls[k] : k \in 1..Handled(i) } :
            i \in ToolRequestsAt("round") }

\* C10: the tool calls of a round are handled in the order requested: the
\* k-th tool message after the round's request carries the k-th request's
\* id, there is one tool message per handled request and none besides, and
\* execute_tool has been called once for each handled request whose
\* arguments parse, in request order.
ToolsExecutedInRequestOrder ==
    /\ \A i \in ToolRequestsAt("round") :
        LET tcs == api_calls[i].response.tool_calls
            at == Len(api_calls[i].messages) + 1
        IN  Handled(i) > 0 =>
              /\ messages[at] = AssistantMsg(api_calls[i].response)
              /\ \A k \in 1..Handled(i) :
                    /\ messages[at + k].role = "tool"
                    /\ messages[at + k].tool_call_id = tcs[k].id
              /\ Len(messages) > at + Handled(i) =>
                    messages[at + Handled(i) + 1].role # "tool"
    /\ Cardinality({ j \in 1..Len(messages) : messages[j].role = "tool" })
         = Cardinality(HandledToolCalls)
    /\ \A a, b \in 1..Len(executed) : a < b => executed[a].id < executed[b].id
    /\ Range(executed) = { tc \in HandledToolCalls : JsonLoads(tc.arguments) }

\* A batch of two tool calls, both executed, the second after the first.
ToolsExecutedInRequestOrderWitness ==
    /\ Returned
    /\ Len(response.tool_calls) >= 2
    /\ Len(executed) >= 2
    /\ executed[1].id = 1
    /\ executed[2].id = 2

\* ----------------------------------------------------------------- C11
\* The tool message that answers request id with exactly this content.
HasToolMessage(id, content) ==
    \E j \in 1..Len(messages) : messages[j] = ToolMsg(id, content)

\* The iterations of the tool loop in which the tool itself raised.
ToolRaisedAt ==
    { k \in 1..Len(tool_outcomes) :
        tool_outcomes[k].invoked /\ tool_outcomes[k].raised }

\* C11, safety part: a tool that raised has left a tool message with the
\* request's id and the content "Tool execution failed: <cause>", and the
\* only exception that leaves generate_response is one raised by a model
\* call.
ToolFailureRecorded ==
    /\ \A k \in ToolRaisedAt :
          HasToolMessage(tool_outcomes[k].id,
                         "Tool execution failed: " \o tool_outcomes[k].text)
    /\ pc = "raised" =>
          api_calls[Len(api_calls)].response = RaisedResponse

\* C11: when a tool raises, the exception does not leave generate_response:
\* the failure becomes the tool result "Tool execution failed: <cause>" for
\* that request's id, and generate_response still returns an answer unless
\* a model call raises.
ToolFailureContained ==
    /\ []ToolFailureRecorded
    /\ ([](pc # "raised")) => ((ToolRaisedAt # {}) ~> Returned)

\* A query that returned an answer after one of its tools raised.
ToolFailureContainedWitness ==
    /\ Returned
    /\ result = "answer"
    /\ ToolRaisedAt # {}

\* ----------------------------------------------------------------- C12
\* The tool loop of the round-start call at position i of api_calls is over.
BatchDone(i) ==
    /\ tool_manager
    /\ i < Len(api_calls) \/ pc \notin { "check_tools", "exec_tools", "raised" }

\* The iterations of the tool loop that handled the request with this id.
OutcomesOf(id) ==
    { k \in 1..Len(tool_outcomes) : tool_outcomes[k].id = id }

\* The request was handled, and its tool message carries the result of its
\* own execution.
HasOwnResult(tool_call) ==
    \E k \in OutcomesOf(tool_call.id) :
        /\ tool_outcomes[k].name = tool_call.name
        /\ tool_outcomes[k].invoked = (tool_call.arguments = "{json}")
        /\ HasToolMessage(tool_call.id,
              IF tool_outcomes[k].raised
              THEN "Tool execution failed: " \o tool_outcomes[k].text
              ELSE tool_outcomes[k].text)

\* Once a batch is over every request of it has its own result, whatever
\* happened to the others.
BatchFullyHandled ==
    \A i \in ToolRequestsAt("round") :
        BatchDone(i) =>
            \A k \in 1..Len(api_calls[i].response.tool_calls) :
                HasOwnResult(api_calls[i].response.tool_calls[k])

\* No step changes a message or a recorded outcome that is already there.
ResultsKept ==
    /\ Len(messages') >= Len(messages)
    /\ \A j \in 1..Len(messages) : messages'[j] = messages[j]
    /\ Len(tool_outcomes') >= Len(tool_outcomes)
    /\ \A k \in 1..Len(tool_outcomes) : tool_outcomes'[k] = tool_outcomes[k]

\* C12: the tool executions of a batch are independent: when one fails, the
\* later ones are still executed and get their own results, and the results
\* of the earlier ones stay as they were.
BatchExecutionsIndependent ==
    /\ []BatchFullyHandled
    /\ [][ResultsKept]_vars

\* A batch whose first tool raised and whose second tool then ran and
\* returned its result.
BatchExecutionsIndependentWitness ==
    /\ Len(tool_outcomes) >= 2
    /\ tool_outcomes[1].invoked /\ tool_outcomes[1].raised
    /\ tool_outcomes[2].ran /\ ~tool_outcomes[2].raised
    /\ HasToolMessage(tool_outcomes[2].id, tool_outcomes[2].text)
    /\ batches = << 1 >>
    /\ Returned

\* ----------------------------------------------------------------- C13
\* The handled requests whose argument payload is not valid JSON.
MalformedHandled ==
    { tc \in HandledToolCalls : tc.arguments = "{malformed" }

\* C13: a request whose argument payload is malformed fails by itself:
\* execute_tool is not called for it, and a tool message with its id and an
\* execution-failure text is appended.
MalformedArgumentsContained ==
    \A tc \in MalformedHandled :
        /\ tc \notin Range(executed)
        /\ \A k \in OutcomesOf(tc.id) :
              ~tool_outcomes[k].invoked /\ ~tool_outcomes[k].ran
        /\ HasToolMessage(tc.id, "Tool execution failed: JSONDecodeError")

\* A query that returned a normal answer after a request with a malformed
\* payload, the request after it having been executed.
MalformedArgumentsContainedWitness ==
    /\ Returned
    /\ result = "answer"
    /\ Len(tool_outcomes) >= 2
    /\ ~tool_outcomes[1].invoked
    /\ tool_outcomes[2].invoked
    /\ MalformedHandled # {}

\* ----------------------------------------------------------------- C14
\* The iterations of the tool loop that named a tool that is not registered.
UnknownToolAt ==
    { k \in 1..Len(tool_outcomes) :
        tool_outcomes[k].invoked /\ tool_outcomes[k].name = "nonexistent_tool" }

\* C14: executing a tool name that is not registered runs no tool and raises
\* nothing; it returns "Tool '<name>' not found", and that string is the
\* content of the request's tool message.
UnknownToolNotFound ==
    \A k \in UnknownToolAt :
        /\ ~tool_outcomes[k].ran
        /\ ~tool_outcomes[k].raised
        /\ tool_outcomes[k].text = "Tool 'nonexistent_tool' not found"
        /\ HasToolMessage(tool_outcomes[k].id,
                          "Tool 'nonexistent_tool' not found")

\* A query that returned after the model asked for an unregistered tool.
UnknownToolNotFoundWitness ==
    /\ Returned
    /\ UnknownToolAt # {}

\* ----------------------------------------------------------------- C15
\* Positions in api_calls of the model calls that raised.
RaisedCalls ==
    { i \in 1..Len(api_calls) : api_calls[i].response = RaisedResponse }

\* A model call that raised is the last one made, and generate_response
\* has left with the exception and without a value.
RaisedCallIsLast ==
    \A i \in RaisedCalls :
        /\ i = Len(api_calls)
        /\ pc = "raised"
        /\ result = None

\* C15: a model call that raises is not retried and is fatal to the query:
\* after it there is no further model call, no further tool execution and
\* no answer; generate_response ends with the exception.
TransportFailureFatal ==
    /\ []RaisedCallIsLast
    /\ [][pc # "raised"]_vars

\* A query whose model call raised after its tools had run.
TransportFailureFatalWitness ==
    /\ pc = "raised"
    /\ executed # <<>>
    /\ RaisedCalls = { Len(api_calls) }

\* ----------------------------------------------------------------- C16
\* C16: no retries of tools: every request is handled in at most one
\* iteration of the tool loop, execute_tool is called at most once for it,
\* and it gets at most one tool message, whether or not it failed.
NoToolRetries ==
    /\ \A a, b \in 1..Len(tool_outcomes) :
          tool_outcomes[a].id = tool_outcomes[b].id => a = b
    /\ \A a, b \in 1..Len(executed) :
          executed[a].id = executed[b].id => a = b
    /\ \A a, b \in 1..Len(messages) :
          (/\ messages[a].role = "tool"
           /\ messages[b].role = "tool"
           /\ messages[a].tool_call_id = messages[b].tool_call_id) => a = b

\* A query that went on to a second round after a tool of its first round
\* failed, the failed request having been handled once.
NoToolRetriesWitness ==
    /\ Len(batches) = 2
    /\ Len(tool_outcomes) >= 2
    /\ tool_outcomes[1].raised
    /\ Cardinality(OutcomesOf(tool_outcomes[1].id)) = 1
    /\ Returned

\* ----------------------------------------------------------------- C17
\* RAGSystem.query has read the sources it returns with its answer.
SourcesRead == q_pc \in { "read", "reset" }

QueryProtocol ==
    LET steps == SelectSeq(q_events, LAMBDA e : e.op # "tool")
    IN  [ i \in 1..Len(steps) |-> steps[i].op ]

\* The tool executions of the running query all came before
\* generate_response returned.
ToolsBeforeReturn ==
    \A i, j \in 1..Len(q_events) :
        (q_events[i].op = "tool" /\ q_events[j].op # "tool") => i < j

\* C18: a successful query reads the tracked sources exactly once and
\* resets the tracker exactly once, the read after generate_response
\* returned and before the reset; the list it returns with the answer is
\* the list the tracker held when it was read.
ReadOnceThenResetOnce ==
    /\ ToolsBeforeReturn
    /\ q_pc = "generating" => QueryProtocol = <<>>
    /\ q_pc = "generated" => QueryProtocol = << "generated" >>
    /\ q_pc = "read" => QueryProtocol = << "generated", "read" >>
    /\ q_pc = "reset" =>
          /\ QueryProtocol = << "generated", "read", "reset" >>
          /\ last_sources = <<>>
    /\ SourcesRead =>
          \A i \in 1..Len(q_events) :
              q_events[i].op = "read" => q_sources = q_events[i].tracker
    /\ (q_pc = "idle" /\ last_finished.outcome = "ok") =>
          /\ QueryProtocol = << "generated", "read", "reset" >>
          /\ last_finished.sources = q_sources
          /\ last_finished.answer = q_answer

\* A query that is about to return the labels its searches tracked, the
\* tracker having been read and then emptied.
ReadOnceThenResetOnceWitness ==
    /\ q_pc = "reset"
    /\ q_sources = << "Course A - Lesson 1", "Course B - Lesson 2" >>
    /\ last_sources = <<>>
    /\ Len(q_events) = 5

NoDuplicates(sources) ==
    \A a, b \in 1..Len(sources) : sources[a] = sources[b] => a = b

\* The position of the first occurrence of a label in a list that has it.
FirstIndex(labels, label) ==
    CHOOSE i \in 1..Len(labels) :
        /\ labels[i] = label
        /\ \A j \in 1..(i - 1) : labels[j] # label

\* sources is labels with every occurrence of a label but its first taken
\* out.
IsFirstOccurrences(sources, labels) ==
    /\ \A i \in 1..Len(labels) : Contains(sources, labels[i])
    /\ \A k \in 1..Len(sources) : Contains(labels, sources[k])
    /\ NoDuplicates(sources)
    /\ \A a, b \in 1..Len(sources) :
          a < b => FirstIndex(labels, sources[a]) < FirstIndex(labels, sources[b])

\* C20: the source list tracked for a result set is its labels with the
\* duplicates removed, the first occurrence of each kept and the result
\* order kept (labels [A, A, B] give [A, B]); no label is ever twice in the
\* tracked list.
DedupOrder ==
    /\ IsFirstOccurrences(formatted.sources, formatted.labels)
    /\ formatted.labels = << "Course A - Lesson 1", "Course A - Lesson 1",
                             "Course B - Lesson 2" >>
          => formatted.sources = << "Course A - Lesson 1", "Course B - Lesson 2" >>
    /\ NoDuplicates(last_sources)
    /\ NoDuplicates(q_sources)

\* The result set with labels [B, A, B] has been formatted, over a tracker
\* that held a label already.
DedupOrderWitness ==
    /\ formatted.labels = << "Course B - Lesson 2", "Course A - Lesson 1",
                             "Course B - Lesson 2" >>
    /\ formatted.sources = << "Course B - Lesson 2", "Course A - Lesson 1" >>
    /\ Len(last_sources) = 2
    /\ Len(q_events) = 2

\* ----------------------------------------------------------------- C21
\* The filter the table gives for a title and a lesson number, either of
\* which may be absent.
FilterTableEntry(title, lesson) ==
    CASE title = None /\ lesson = NoLesson -> NoFilter
      [] title # None /\ lesson = NoLesson -> [ course_title |-> title ]
      [] title = None /\ lesson # NoLesson -> [ lesson_number |-> lesson ]
      [] title # None /\ lesson # NoLesson ->
            "$and" :> << [ course_title |-> title ],
                         [ lesson_number |-> lesson ] >>

\* The content index has been queried by the running search.
ContentQueried == s_pc \in { "format", "done" } /\ content_queries > 0

\* C21: the filter built from a course title and a lesson number is no
\* filter when both are absent, {course_title: C} for the title alone,
\* {lesson_number: n} for the lesson alone and {$and: [{course_title: C},
\* {lesson_number: n}]} for both, for every title and lesson number, and
\* has no other shape; it is the filter the content index is queried with.
FilterTable ==
    /\ \A title \in Titles \cup { None }, lesson \in LessonArgs :
          BuildFilter(title, lesson) = FilterTableEntry(title, lesson)
    /\ ContentQueried =>
          /\ filter_dict = FilterTableEntry(course_title, lesson_number)
          /\ \/ filter_dict = NoFilter
             \/ DOMAIN filter_dict = { "course_title" }
             \/ DOMAIN filter_dict = { "lesson_number" }
             \/ /\ DOMAIN filter_dict = { "$and" }
                /\ Len(filter_dict["$and"]) = 2

\* A search for a lesson of a course that resolved has queried the index
\* under the conjunction of the two predicates.
FilterTableWitness ==
    /\ ContentQueried
    /\ course_title = "Course A"
    /\ lesson_number = 2
    /\ filter_dict = "$and" :> << [ course_title |-> "Course A" ],
                                  [ lesson_number |-> 2 ] >>

\* ----------------------------------------------------------------- C22
\* search has returned its result set to the tool.
SearchReturned == s_pc \in { "format", "done" }

\* The running search was given a course name that did not resolve.
CourseUnresolved ==
    SearchReturned /\ course_name # None /\ course_title = None

\* C22: a search whose course name the catalog cannot resolve returns an
\* empty result set with the error "No course found matching '<name>'",
\* and does not query the content index.
UnresolvedCourseNotQueried ==
    CourseUnresolved =>
        /\ results.documents = <<>>
        /\ results.metadata = <<>>
        /\ results.error = "No course found matching '" \o course_name \o "'"
        /\ content_queries = 0
        /\ filter_dict = NoFilter

\* The tool has returned after a search for a course that did not resolve.
UnresolvedCourseNotQueriedWitness ==
    /\ CourseUnresolved
    /\ s_pc = "done"
    /\ lesson_number = 1
    /\ results.error = "No course found matching 'Course'"

\* ----------------------------------------------------------------- C23
\* C23: an exception raised by the query of the content index does not
\* leave search: search returns an empty result set whose error is
\* "Search error: <cause>", and the tool goes on with it.
IndexFailureConverted ==
    /\ index_raised # None =>
          /\ SearchReturned
          /\ results.documents = <<>>
          /\ results.metadata = <<>>
          /\ results.error = "Search error: " \o index_raised
    /\ (SearchReturned /\ content_queries > 0 /\ index_raised = None) =>
          results.error = None

\* The tool has returned after the content index raised.
IndexFailureConvertedWitness ==
    /\ s_pc = "done"
    /\ index_raised = "ChromaDB connection failed"
    /\ results.error = "Search error: ChromaDB connection failed"

\* ----------------------------------------------------------------- C24
\* execute has returned its text.
ToolReturned == s_pc = "done"

\* C24: when the result set has its error set, the text the tool returns
\* is that error string and nothing else: no excerpt, no other message.
ErrorTextVerbatim ==
    (ToolReturned /\ results.error # None) =>
        /\ tool_text = << results.error >>
        /\ last_sources = <<>>

\* The tool has returned the error of a search whose index query raised.
ErrorTextVerbatimWitness ==
    /\ ToolReturned
    /\ tool_text = << "Search error: ChromaDB connection failed" >>

\* ----------------------------------------------------------------- C25
\* The running search returned no result and no error.
NothingFound ==
    ToolReturned /\ results.error = None /\ Len(results.documents) = 0

\* The filter has a predicate on this field.
FilterOn(filter, field) ==
    \/ field \in DOMAIN filter
    \/ /\ DOMAIN filter = { "$and" }
       /\ \E k \in 1..Len(filter["$and"]) : field \in DOMAIN filter["$and"][k]

SomethingFound ==
    ToolReturned /\ results.error = None /\ Len(results.documents) > 0

\* C26: for a result set with results, a result with a lesson number is
\* labelled "<course title> - Lesson <n>" and one without "<course title>";
\* the text has one block per result, in result order, that starts with
\* the bracketed label and holds the document, and the source list holds
\* the same labels without brackets.
LabelsInResultOrder ==
    SomethingFound =>
        /\ Len(tool_text) = Len(results.metadata)
        /\ Len(formatted.labels) = Len(results.metadata)
        /\ \A i \in 1..Len(results.metadata) :
            LET meta == results.metadata[i]
                label == IF meta.lesson_number = NoLesson
                         THEN meta.course_title
                         ELSE meta.course_title \o " - Lesson "
                                \o ToString(meta.lesson_number)
            IN  /\ tool_text[i] = "[" \o label \o "]\n" \o results.documents[i]
                /\ formatted.labels[i] = label
                /\ Contains(last_sources, label)
        /\ \A k \in 1..Len(last_sources) :
              Contains(formatted.labels, last_sources[k])

\* A result of a lesson and a result of no lesson have been formatted, in
\* that order.
LabelsInResultOrderWitness ==
    /\ SomethingFound
    /\ tool_text = << "[Course A - Lesson 1]\nContent", "[Course B]\nContent" >>
    /\ last_sources = << "Course A - Lesson 1", "Course B" >>

\* ----------------------------------------------------------------- C27
\* Positions in session_calls of the calls of this operation.
SessionCallsOf(op) ==
    { k \in 1..Len(session_calls) : session_calls[k].op = op }

\* The handler is running, or has answered the last request with 200.
HandledRequest == q_pc # "idle" \/ http_response.status = 200

\* C27: a request with a non-empty session_id keeps it and creates no
\* session; a request with none or an empty one creates exactly one
\* session and takes its id; this id is the one the RAG query works with
\* and the one the answer carries.
SessionIdKept ==
    /\ HandledRequest =>
          /\ (request_session # None /\ request_session # "") =>
                /\ session_id = request_session
                /\ SessionCallsOf("create_session") = {}
          /\ (request_session = None \/ request_session = "") =>
                /\ SessionCallsOf("create_session") = { 1 }
                /\ session_id = session_calls[1].session_id
                /\ session_id = "session_" \o ToString(num_sessions)
          /\ \A k \in 1..Len(session_calls) :
                session_calls[k].session_id = session_id
    /\ http_response.status = 200 => http_response.session_id = session_id

\* A request with an empty session_id was answered with the id of the
\* session created for it, the second of the run.
SessionIdKeptWitness ==
    /\ q_pc = "idle"
    /\ http_response.status = 200
    /\ request_session = ""
    /\ http_response.session_id = "session_2"
    /\ Len(session_calls) = 3

\* ----------------------------------------------------------------- C28
\* The handler has answered the last request.
RequestAnswered == q_pc = "idle" /\ num_queries > 0

\* C28: when the processing of a request raises, in create_session or in
\* the RAG query, the handler answers with status 500 and a detail that
\* holds the exception's message, and not with 200; a request is answered
\* with 200 only if nothing raised.
FailureAnswered500 ==
    /\ RequestAnswered =>
          /\ http_response.status \in { 200, 500 }
          /\ q_exception # None =>
                /\ http_response.status = 500
                /\ http_response.detail =
                      "Query processing error: " \o q_exception
          /\ http_response.status = 200 => q_exception = None
    /\ q_pc # "idle" => http_response.status = 0

\* A request whose model call raised after a search had run was answered
\* with status 500.
FailureAnswered500Witness ==
    /\ RequestAnswered
    /\ q_exception = "Connection error"
    /\ http_response.status = 500
    /\ Len(q_events) > 0
    /\ last_sources # <<>>

\* ----------------------------------------------------------------- C29
\* The calls RAGSystem.query has made to the session manager, in order.
QuerySessionCalls ==
    SelectSeq(session_calls, LAMBDA call : call.op # "create_session")

\* The system content generate_response builds for the session's history.
ExpectedSystemContent ==
    IF session_id \in with_history
    THEN SYSTEM_PROMPT \o "\n\nPrevious conversation:\n" \o "prior exchange"
    ELSE SYSTEM_PROMPT

\* C29: RAGSystem.query fetches the history of the request's session once,
\* before generate_response is called, and passes it as the conversation
\* history; it records one exchange (session id, query, answer), after the
\* answer was produced, and none when generate_response raised.
SessionHistoryProtocol ==
    /\ q_pc = "history" => QuerySessionCalls = <<>>
    /\ q_pc \in { "generating", "generated", "read", "reset" } =>
          /\ QuerySessionCalls = << SessionCall("get_conversation_history",
                                               session_id, None, None) >>
          /\ messages = << SystemMsg(ExpectedSystemContent), UserMsg(QUERY) >>
    /\ (q_pc = "recorded" \/ (q_pc = "idle" /\ last_finished.outcome = "ok")) =>
          /\ QuerySessionCalls =
                << SessionCall("get_conversation_history", session_id,
                               None, None),
                   SessionCall("add_exchange", session_id, QUERY, q_answer) >>
          /\ \E i \in 1..Len(q_events) : q_events[i].op = "generated"
          /\ session_id \in with_history
    /\ (q_pc = "idle" /\ last_finished.outcome = "raised") =>
          SessionCallsOf("add_exchange") = {}

\* A query of a session that had an exchange already was given its history
\* and has recorded its own exchange.
SessionHistoryProtocolWitness ==
    /\ q_pc = "recorded"
    /\ request_session = "session_1"
    /\ q_history = "prior exchange"
    /\ messages[1].content =
          SYSTEM_PROMPT \o "\n\nPrevious conversation:\n" \o "prior exchange"
    /\ q_answer = "answer"
    /\ Len(session_calls) = 2

\* ----------------------------------------------------------------- C30
\* Positions in api_calls of the round-start calls.
RoundCallIndexes ==
    { k \in 1..Len(api_calls) : api_calls[k].site = "round" }

\* Sequence s is the beginning of sequence t.
IsPrefixOf(s, t) ==
    /\ Len(s) <= Len(t)
    /\ SubSeq(t, 1, Len(s)) = s

\* The messages round-start call j carries beyond those of call i.
SentSince(i, j) ==
    SubSeq(api_calls[j].messages, Len(api_calls[i].messages) + 1,
           Len(api_calls[j].messages))

\* Round-start calls i and j follow each other.
ConsecutiveRounds(i, j) ==
    /\ i \in RoundCallIndexes
    /\ j \in RoundCallIndexes
    /\ i < j
    /\ \A k \in RoundCallIndexes : ~(i < k /\ k < j)

\* exchange is what happened after round-start call i: the tool request it
\* was answered with, one tool message per tool call of the request in
\* request order with the recorded outcome of that call, and the model's
\* answer to the continuation check.
IsExchangeOfRound(exchange, i) ==
    LET tool_calls == api_calls[i].response.tool_calls
        n == Len(tool_calls)
    IN  /\ Len(exchange) = n + 2
        /\ exchange[1] = AssistantMsg(api_calls[i].response)
        /\ \A t \in 1..n :
              /\ exchange[1 + t].role = "tool"
              /\ exchange[1 + t].tool_call_id = tool_calls[t].id
              /\ \E o \in 1..Len(tool_outcomes) :
                    /\ tool_outcomes[o].id = tool_calls[t].id
                    /\ exchange[1 + t].content =
                          IF tool_outcomes[o].raised
                          THEN "Tool execution failed: " \o tool_outcomes[o].text
                          ELSE tool_outcomes[o].text
        /\ api_calls[i + 1].site = "decision"
        /\ exchange[n + 2] = AssistantMsg(api_calls[i + 1].response)

\* C30: every round-start model call is sent the system message, the user
\* message and the tool exchange of all earlier rounds in the order it
\* happened: the first round-start call carries the two initial messages,
\* what a round-start call carries is a prefix of what the next one
\* carries, the rest being the exchange of the round between them, and the
\* first two messages are the same in every call and in the message list.
RoundInputAccumulates ==
    /\ Len(messages) >= 2
    /\ messages[1].role = "system"
    /\ messages[2] = UserMsg(QUERY)
    /\ \A k \in 1..Len(api_calls) :
          SubSeq(api_calls[k].messages, 1, 2) = SubSeq(messages, 1, 2)
    /\ \A j \in RoundCallIndexes :
          /\ (\A i \in RoundCallIndexes : j <= i) =>
                Len(api_calls[j].messages) = 2
          /\ IsPrefixOf(api_calls[j].messages, messages)
    /\ \A i, j \in RoundCallIndexes :
          ConsecutiveRounds(i, j) =>
             /\ IsPrefixOf(api_calls[i].messages, api_calls[j].messages)
             /\ IsExchangeOfRound(SentSince(i, j), i)

\* A second round-start call was sent the exchange of the first round, in
\* which two tools were called and one of them failed.
RoundInputAccumulatesWitness ==
    /\ Cardinality(RoundCallIndexes) = 2
    /\ \E j \in RoundCallIndexes :
          /\ Len(api_calls[j].messages) = 6
          /\ api_calls[j].messages[3].role = "assistant"
          /\ api_calls[j].messages[4].role = "tool"
          /\ api_calls[j].messages[5].role = "tool"
          /\ api_calls[j].messages[6].role = "assistant"
    /\ \E o \in 1..Len(tool_outcomes) : tool_outcomes[o].raised
    /\ messages[1].content # SYSTEM_PROMPT

\* ----------------------------------------------------------------- C31
\* The last model call made.
LastCall == api_calls[Len(api_calls)]

\* The last model call is one of the three calls generate_response returns
\* the text of: a round-start call that is not followed by tool execution
\* (line 127), a continuation check answered directly (line 119) or a
\* final synthesis (lines 119, 124, 130).
TerminalCase ==
    \/ /\ LastCall.site = "round"
       /\ ~(LastCall.response.finish_reason = "tool_calls" /\ tool_manager)
    \/ /\ LastCall.site = "decision"
       /\ LastCall.response.finish_reason # "tool_calls"
    \/ LastCall.site = "final"

\* No tool call requested by the last model call was handled.
LastCallNotExecuted ==
    \A o \in 1..Len(tool_outcomes) :
        \A k \in 1..Len(LastCall.response.tool_calls) :
            tool_outcomes[o].id # LastCall.response.tool_calls[k].id

\* C31: when generate_response has returned, its last model call is a
\* round-start call answered directly, a continuation check answered
\* directly or a final synthesis, and the value returned is the text of
\* that call; the step that returns executes no tool and makes no model
\* call other than the one whose text it returns, a step that executes a
\* tool never returns, and nothing happens after the return.
ReturnsLastCallText ==
    /\ [](Returned =>
            /\ api_calls # <<>>
            /\ TerminalCase
            /\ result = LastCall.response.content
            /\ LastCallNotExecuted)
    /\ [][/\ (pc # "done" /\ pc' = "done") =>
                /\ tool_outcomes' = tool_outcomes
                /\ executed' = executed
                /\ Len(api_calls') <= Len(api_calls) + 1
                /\ api_calls' = api_calls => pc = "check_tools"
          /\ tool_outcomes' # tool_outcomes =>
                (pc' = "exec_tools" /\ api_calls' = api_calls)
          /\ pc = "check_tools" => response = LastCall.response
          /\ pc = "done" => UNCHANGED gvars]_vars

\* A query returned the text of a final synthesis made after a continuation
\* check and two tool executions.
ReturnsLastCallTextWitness ==
    /\ Returned
    /\ result = "answer"
    /\ LastCall.site = "final"
    /\ CallsAt("decision") # {}
    /\ Len(tool_outcomes) >= 2

\* ----------------------------------------------------------------- C32
\* Every round-start call and every continuation check made so far was
\* answered with a tool request.
ToolsOnEveryCall ==
    /\ ToolRequestsAt("round") = CallsAt("round")
    /\ ToolRequestsAt("decision") = CallsAt("decision")

\* C32: for max_rounds = N >= 1, generate_response makes at most N
\* round-start calls, N - 1 continuation checks and one final synthesis,
\* so at most 2 * N model calls; and when it was given a tool manager and
\* the model asked for tools on every round-start call and continuation
\* check, it has made exactly 2 * N calls when it returns.
ModelCallBound ==
    max_rounds >= 1 =>
        /\ Cardinality(CallsAt("round")) <= max_rounds
        /\ Cardinality(CallsAt("decision")) <= max_rounds - 1
        /\ Cardinality(CallsAt("final")) <= 1
        /\ Len(api_calls) <= 2 * max_rounds
        /\ (Returned /\ tool_manager /\ ToolsOnEveryCall) =>
              /\ Cardinality(CallsAt("round")) = max_rounds
              /\ Cardinality(CallsAt("decision")) = max_rounds - 1
              /\ Cardinality(CallsAt("final")) = 1
              /\ Len(api_calls) = 2 * max_rounds

\* A query with the largest max_rounds returned after the model asked for
\* tools on every round-start call and continuation check.
ModelCallBoundWitness ==
    /\ Returned
    /\ tool_manager
    /\ max_rounds = MaxRounds
    /\ ToolsOnEveryCall
    /\ Len(api_calls) = 2 * MaxRounds

\* ----------------------------------------------------------------- C33
\* The two prompts generate_response adds to a request of its own.
Prompts == { DECISION_PROMPT, FINAL_PROMPT }

\* No message of msgs carries one of the prompts.
PromptFree(msgs) ==
    \A i \in 1..Len(msgs) : msgs[i].content \notin Prompts

\* The model call a step has just made.
NewCall == api_calls'[Len(api_calls')]

\* C33: the continuation prompt and the synthesis prompt are never in the
\* accumulated history nor in a round-start request; a continuation check
\* and a final synthesis are sent the history plus their own prompt as the
\* last message; a final synthesis leaves the history as it is, and so does
\* a continuation check, unless its response asks for tools: then this
\* response is appended as one assistant message.
PromptsNotInHistory ==
    /\ [](/\ PromptFree(messages)
          /\ \A i \in CallsAt("round") : PromptFree(api_calls[i].messages))
    /\ [][Len(api_calls') > Len(api_calls) =>
            /\ NewCall.site = "decision" =>
                  /\ NewCall.messages =
                        Append(messages, UserMsg(DECISION_PROMPT))
                  /\ messages' =
                        IF NewCall.response.finish_reason = "tool_calls"
                        THEN Append(messages, AssistantMsg(NewCall.response))
                        ELSE messages
            /\ NewCall.site = "final" =>
                  /\ NewCall.messages = Append(messages, UserMsg(FINAL_PROMPT))
                  /\ messages' = messages]_vars

\* A query returned after a continuation check that asked for tools and a
\* final synthesis; its history holds the check's request and no prompt.
PromptsNotInHistoryWitness ==
    /\ Returned
    /\ ToolRequestsAt("decision") # {}
    /\ CallsAt("final") # {}
    /\ \E i \in ToolRequestsAt("decision") :
          \E k \in 1..Len(messages) :
              messages[k] = AssistantMsg(api_calls[i].response)
    /\ PromptFree(messages)

\* ----------------------------------------------------------------- C34
\* C34: with max_rounds <= 0 no round-start call and no continuation check
\* is made, no tool is executed and the history stays the initial one; the
\* only model call is one final synthesis, sent the initial history plus
\* the synthesis prompt and no tools, and its text is the value returned.
NoRoundsOnlySynthesis ==
    max_rounds <= 0 =>
        /\ CallsAt("round") = {}
        /\ CallsAt("decision") = {}
        /\ executed = <<>>
        /\ tool_outcomes = <<>>
        /\ batches = <<>>
        /\ Len(messages) = 2
        /\ Len(api_calls) <= 1
        /\ pc \in { "loop", "final", "done", "raised" }
        /\ Returned =>
              /\ Len(api_calls) = 1
              /\ api_calls[1].site = "final"
              /\ api_calls[1].messages = Append(messages, UserMsg(FINAL_PROMPT))
              /\ api_calls[1].tools = <<>>
              /\ result = api_calls[1].response.content

\* A call with a negative max_rounds, tools and a tool manager returned
\* the text of its one synthesis call.
NoRoundsOnlySynthesisWitness ==
    /\ Returned
    /\ max_rounds < 0
    /\ tools # <<>>
    /\ tool_manager
    /\ Len(api_calls) = 1
    /\ result = "answer"

\* ----------------------------------------------------------------- C36
\* C36: the continuation check is made only for a round before the last
\* (current_round = round_num + 1 < max_rounds), so when its response asks
\* for tools generate_response never takes the branch of line 122 to the
\* final synthesis: it goes on to the next round, which is within
\* max_rounds.
ForcedBranchNeverTaken ==
    /\ [](/\ pc = "decide" => round_num + 1 < max_rounds
          /\ \A i \in CallsAt("decision") :
                Cardinality({ j \in CallsAt("round") : j < i }) < max_rounds)
    /\ [][(/\ Len(api_calls') > Len(api_calls)
           /\ NewCall.site = "decision"
           /\ NewCall.response.finish_reason = "tool_calls") =>
              /\ ~(round_num + 1 >= max_rounds)
              /\ pc' = "loop"
              /\ round_num' = round_num + 1
              /\ round_num' < max_rounds]_vars

\* A continuation check asked for tools and the next round is about to
\* start.
ForcedBranchNeverTakenWitness ==
    /\ pc = "loop"
    /\ round_num = 1
    /\ api_calls # <<>>
    /\ LastCall.site = "decision"
    /\ LastCall.response.finish_reason = "tool_calls"

\* ----------------------------------------------------------------- C35
\* C35: when generate_response was given no tool manager, no tool is
\* executed and the history stays the initial one; a round-start call
\* answered with a tool request is the only model call of the query,
\* nothing is appended for it, and its content is the value returned.
NoManagerReturnsContent ==
    ~tool_manager =>
        /\ executed = <<>>
        /\ tool_outcomes = <<>>
        /\ batches = <<>>
        /\ Len(messages) = 2
        /\ \A i \in ToolRequestsAt("round") :
              /\ Len(api_calls) = 1
              /\ pc \in { "check_tools", "done" }
              /\ messages = api_calls[i].messages
              /\ Returned => result = api_calls[i].response.content

\* A call without a tool manager returned the text that came with the
\* model's tool request.
NoManagerReturnsContentWitness ==
    /\ Returned
    /\ ~tool_manager
    /\ tools # <<>>
    /\ ToolRequestsAt("round") = { 1 }
    /\ api_calls[1].response.tool_calls[1].name = "search_course_content"
    /\ result = "Let me check"

====
